---- MODULE Spec2Model ----
(***************************************************************************)
(* Model of the paprika-mcp-server Recipe Store (src/src/RecipeStore.ts):  *)
(* the RxDB-backed in-memory collection, its load() handler with every     *)
(* await point as a separate step, and the read operations list(),         *)
(* getByUid(), search() and getCount().                                    *)
(*                                                                         *)
(* Strings that are searched are sequences of one-character strings, so    *)
(* that toLowerCase(), trim() and includes() are computed, not assumed.    *)
(* JSON values are tagged: [t |-> <typeof>, v |-> <payload>].              *)
(***************************************************************************)
EXTENDS Integers, Sequences, FiniteSets, TLC

\* ------------------------------------------------------------------ bounds
NumCalls == 2      \* load() calls that may be in flight on one store
MaxFiles == 2      \* directory entries of recipesDir
MaxQueryLen == 2   \* characters of a search query
MaxLimit == 2      \* largest `limit` a tool call passes
MaxEntries == 2    \* entries of a .paprikarecipes archive
MaxNumber == 9     \* largest finite number (Number.MAX_VALUE of the model)

\* ------------------------------------------------------------ JSON values
Str(s) == [t |-> "string", v |-> s]
Num(n) == [t |-> "number", v |-> n]
Arr(a) == [t |-> "array", v |-> a]
Obj(o) == [t |-> "object", v |-> o]
Bool(b) == [t |-> "boolean", v |-> b]
JsNull == [t |-> "null", v |-> <<>>]

\* Absent value: `null` returned by getByUid, `undefined` of a missing field.
Nil == [t |-> "undefined", v |-> <<>>]

\* A numeric literal beyond the largest finite number is read as Infinity.
Infinity == Num(MaxNumber + 1)

\* A uid is a one-character string here.
Uid(u) == Str(<<u>>)

\* The order of RxDB's primary-key index (string comparison), which is the
\* order find() returns documents in.
UidOrder == <<Uid("A"), Uid("B"), Uid("C")>>

\* ---------------------------------------------------------------- schema
\* recipeSchema.properties: the JSON types each property admits.
recipeSchema ==
  [ uid |-> {"string"}, name |-> {"string"}, ingredients |-> {"string"},
    directions |-> {"string"}, description |-> {"string"}, notes |-> {"string"},
    nutritional_info |-> {"string"}, prep_time |-> {"string"},
    cook_time |-> {"string"}, total_time |-> {"string"}, servings |-> {"string"},
    difficulty |-> {"string"}, rating |-> {"number"}, categories |-> {"array"},
    source |-> {"string"}, source_url |-> {"string"},
    image_url |-> {"string", "null"}, photo |-> {"string", "null"},
    created |-> {"string"}, hash |-> {"string"},
    photo_hash |-> {"string", "null"}, photo_large |-> {"string", "null"},
    photo_data |-> {"string", "null"}, photos |-> {"array"} ]

\* recipeSchema.properties.<array>.items.type
schemaItems == [ categories |-> "string", photos |-> "object" ]

\* recipeSchema.required
schemaRequired == {"uid", "name"}

\* recipeSchema.primaryKey
primaryKey == "uid"

\* Fields RxDB adds to a document on insert and strips again in toJSON().
MetaFields == {"_deleted", "_rev", "_meta", "_attachments"}

\* One property of a record against its schema entry.
PropertyValid(field, val) ==
  /\ field \in DOMAIN recipeSchema
  /\ val.t \in recipeSchema[field]
  /\ (val.t = "array" =>
        \A i \in 1..Len(val.v) : val.v[i].t = schemaItems[field])

\* The ajv validator of wrappedValidateAjvStorage applied to a plain record:
\* required fields present, every property known and of an admitted type.
\* (RxDB compiles the schema with additionalProperties: false.)
SchemaValid(rec) ==
  /\ \A f \in schemaRequired : f \in DOMAIN rec
  /\ \A f \in DOMAIN rec : PropertyValid(f, rec[f])

\* ------------------------------------------------------------ input pool
\* Records that the files of recipesDir may hold.
R1 == ("uid" :> Uid("A")) @@ ("name" :> Str(<<"A", "b">>))
        @@ ("notes" :> Str(<<"b", "a">>))
R2 == ("uid" :> Uid("A")) @@ ("name" :> Str(<<"b">>))
R3 == ("uid" :> Uid("B")) @@ ("name" :> Str(<<"a">>))
        @@ ("description" :> Str(<<"B", " ">>)) @@ ("rating" :> Num(4))
        @@ ("categories" :> Arr(<<Str(<<"a", "b">>)>>))
R4 == ("uid" :> Uid("C")) @@ ("notes" :> Str(<<"a">>))
R5 == ("name" :> Str(<<"a">>))
R6 == ("uid" :> Uid("B")) @@ ("name" :> Num(5))
R7 == ("uid" :> Uid("C")) @@ ("name" :> Str(<<"a">>))
        @@ ("ingredients" :> Str(<<"b", " ">>))
        @@ ("source" :> Str(<<"A", "b">>)) @@ ("photo" :> JsNull)

RecordPool == {R1, R2, R3, R4, R5, R6, R7}

\* A directory entry: its name ends in ".json" or not; its content parses as
\* JSON to a record, or does not parse.
JsonText(rec) == [parses |-> TRUE, value |-> rec]
Garbage == [parses |-> FALSE, value |-> <<>>]
File(ext, content) == [ext |-> ext, content |-> content]

FilePool ==
  {File(".json", JsonText(r)) : r \in RecordPool}
    \cup {File(".json", Garbage), File(".txt", JsonText(R3))}

SeqsUpTo(S, n) == UNION {[1..k -> S] : k \in 0..n}

\* ----------------------------------------------------------------- state
VARIABLES
  dirExists,     \* fs.existsSync(recipesDir)
  files,         \* fs.readdirSync(recipesDir) with each file's content
  initialized,   \* RecipeStore.initialized
  db,            \* RecipeStore.db: Nil or the handle of a created database
  collection,    \* RecipeStore.collection: Nil or the handle of db.recipes
  usedNames,     \* RxDB's registry of database names in use
  docs,          \* documents of the recipes collection, by primary key
  pc,            \* position of each load() call
  outcome,       \* settlement of each load() promise
  local,         \* per call: recipes array, insert errors, logged count
  attempts,      \* history: createRxDatabase calls made so far
  repeated,      \* history: a creation was attempted after one had started
  overlap,       \* history: a load() started while another was in flight
  ret,           \* the last read operation and what it returned
  archive,       \* the input file of unpack: exists, opens as zip, entries
  outDirExists,  \* the output directory of unpack exists
  outDir,        \* files of the output directory: content by file name
  upc,           \* position of the unpack run
  cursor,        \* index of the archive entry the loop is at
  processedCount,
  errorCount,
  pending,       \* the writeFile call in flight
  report,        \* what the run logged for each entry it handled
  summary        \* the summary the run logged, if any

storeVars == <<initialized, db, collection, usedNames, docs>>
envVars == <<dirExists, files>>
histVars == <<attempts, repeated, overlap>>
unpackVars == <<archive, outDirExists, outDir, upc, cursor, processedCount,
                errorCount, pending, report, summary>>
loadVars == <<pc, outcome, local>>

vars == <<dirExists, files, initialized, db, collection, usedNames, docs, pc,
          outcome, local, attempts, repeated, overlap, ret, archive,
          outDirExists, outDir, upc, cursor, processedCount, errorCount,
          pending, report, summary>>

Procs == 1..NumCalls
NoLocal == [recipes |-> <<>>, errors |-> <<>>, count |-> Nil, thrown |-> "none"]
NoRet == [op |-> "none", query |-> <<>>, fields |-> <<>>, uid |-> <<>>,
          value |-> <<>>]

\* ------------------------------------------------------------------ RxDB
DbHandle == Obj(<<"recipesdb">>)

\* this.db.recipes
RecipesOf(database) == Obj(database.v \o <<"recipes">>)

\* fillObjectDataBeforeInsert: the stored form of a record.
FillBeforeInsert(rec) ==
  rec @@ ("_deleted" :> Bool(FALSE)) @@ ("_rev" :> Str(<<"1">>))
      @@ ("_meta" :> Obj(<<>>)) @@ ("_attachments" :> Obj(<<>>))

\* RxDocument.toJSON(): the document without RxDB's own fields.
toJSON(doc) == [f \in (DOMAIN doc) \ MetaFields |-> doc[f]]

\* The primary key of a record; `undefined` when the field is missing.
PrimaryOf(rec) == IF primaryKey \in DOMAIN rec THEN rec[primaryKey] ELSE Nil

\* Variant of bulkInsert: a row whose key is present replaces the document.
bulkUpsert(held, batch, storageFails) ==
  LET ids == {batch[i][primaryKey] : i \in {j \in 1..Len(batch) : SchemaValid(batch[j])}}
  IN IF Cardinality({PrimaryOf(batch[i]) : i \in 1..Len(batch)}) # Len(batch)
       THEN [thrown |-> "COL22", docs |-> held, error |-> <<>>]
     ELSE IF storageFails
       THEN [thrown |-> "storage", docs |-> held, error |-> <<>>]
     ELSE [thrown |-> "none",
           docs |-> [u \in DOMAIN held \cup ids |->
                       IF u \in ids
                         THEN FillBeforeInsert(
                                batch[CHOOSE i \in 1..Len(batch) : PrimaryOf(batch[i]) = u])
                       ELSE held[u]],
           error |-> <<>>]

\* RxCollection.bulkInsert(batch) on a collection holding `held`:
\*  - throws COL22 when two rows of the batch have the same primary key;
\*  - otherwise the validating storage rejects each invalid row (422), the
\*    storage rejects each row whose key is present (409), and the rest are
\*    written. Nothing is written when the storage itself fails.
bulkInsert(held, batch, storageFails) ==
  LET ids == {PrimaryOf(batch[i]) : i \in 1..Len(batch)}
      Invalid(r) == ~SchemaValid(r)
      Conflict(r) == SchemaValid(r) /\ PrimaryOf(r) \in DOMAIN held
      Fresh(r) == SchemaValid(r) /\ PrimaryOf(r) \notin DOMAIN held
      rows == [i \in 1..Len(batch) |-> i]
      conflicts == SelectSeq(rows, LAMBDA i : Conflict(batch[i]))
      invalid == SelectSeq(rows, LAMBDA i : Invalid(batch[i]))
      fresh == SelectSeq(rows, LAMBDA i : Fresh(batch[i]))
      Err(status, i) == [status |-> status, documentId |-> PrimaryOf(batch[i])]
  IN IF Cardinality(ids) # Len(batch)
       THEN [thrown |-> "COL22", docs |-> held, error |-> <<>>]
     ELSE IF storageFails
       THEN [thrown |-> "storage", docs |-> held, error |-> <<>>]
     ELSE [thrown |-> "none",
           docs |-> [u \in DOMAIN held \cup {PrimaryOf(batch[i]) : i \in
                                               {fresh[k] : k \in 1..Len(fresh)}} |->
                       IF u \in DOMAIN held THEN held[u]
                       ELSE FillBeforeInsert(
                              batch[CHOOSE i \in {fresh[k] : k \in 1..Len(fresh)} :
                                      PrimaryOf(batch[i]) = u])],
           error |-> [k \in 1..Len(conflicts) |-> Err(409, conflicts[k])]
                       \o [k \in 1..Len(invalid) |-> Err(422, invalid[k])]]

\* collection.find().exec(): every document, in primary-key order.
find(held) == SelectSeq(UidOrder, LAMBDA u : u \in DOMAIN held)

\* collection.count().exec()
count(held) == Cardinality(DOMAIN held)

\* ------------------------------------------------------------------ load
\* A JSON value is a tagged scalar or array, or an object: a function from
\* property names to JSON values.
typeOf(val) == IF DOMAIN val = {"t", "v"} THEN val.t ELSE "object"

\* The number a numeric literal denotes.
parseNumber(n) == IF n > MaxNumber THEN MaxNumber + 1 ELSE n

\* The value a JSON text denotes.
RECURSIVE parseValue(_)
parseValue(val) ==
  CASE DOMAIN val # {"t", "v"} -> [f \in DOMAIN val |-> parseValue(val[f])]
    [] val.t = "array" -> Arr([i \in 1..Len(val.v) |-> parseValue(val.v[i])])
    [] val.t = "number" -> Num(parseNumber(val.v))
    [] OTHER -> val

\* JSON.parse(fileContent): the record, or a SyntaxError.
JSONparse(content) ==
  IF content.parses THEN [thrown |-> FALSE, value |-> parseValue(content.value)]
  ELSE [thrown |-> TRUE, value |-> Nil]

\* The JSON text of a value: a number that is not finite is written as null.
RECURSIVE serialize(_)
serialize(val) ==
  CASE DOMAIN val # {"t", "v"} -> [f \in DOMAIN val |-> serialize(val[f])]
    [] val.t = "array" -> Arr([i \in 1..Len(val.v) |-> serialize(val.v[i])])
    [] val.t = "number" -> IF val.v > MaxNumber THEN JsNull ELSE val
    [] OTHER -> val

\* Variant of JSON.stringify: every property is written as null.
JSONstringifyNulls(val) ==
  [parses |-> TRUE, value |-> [f \in DOMAIN val |-> JsNull]]

\* JSON.stringify(recipe, null, 2)
JSONstringify(val) == [parses |-> TRUE, value |-> serialize(val)]

\* file.endsWith(".json")
endsWithJson(file) == file.ext = ".json"

\* The loop of load() over the .json files: a file that does not parse is
\* logged and skipped.
RECURSIVE readRecipes(_, _)
readRecipes(dir, i) ==
  IF i > Len(dir) THEN <<>>
  ELSE LET parsed == JSONparse(dir[i].content)
       IN (IF endsWithJson(dir[i]) /\ ~parsed.thrown
             THEN <<parsed.value>> ELSE <<>>) \o readRecipes(dir, i + 1)

\* Variant of outerCatch: the error is thrown on to the caller.
outerCatchRethrows(err) == "rejected"

\* The outer catch of load(): logs the error; the promise still resolves.
outerCatch(err) == "resolved"

\* The guard of initializeDatabase().
alreadyInitialized == initialized

InFlight(p) == pc[p] \notin {"idle", "done"}

\* A call leaves through the outer catch of load().
Caught(p, err) ==
  /\ pc' = [pc EXCEPT ![p] = "done"]
  /\ outcome' = [outcome EXCEPT ![p] = outerCatch(err)]
  /\ local' = [local EXCEPT ![p].thrown = err]

\* load() is called: the synchronous part up to the first await, which is
\* initializeDatabase() up to `await createRxDatabase(...)`.
StartLoad(p) ==
  /\ pc[p] = "idle"
  /\ overlap' = (overlap \/ \E q \in Procs \ {p} : InFlight(q))
  /\ ret' = NoRet
  /\ UNCHANGED unpackVars
  /\ UNCHANGED <<envVars, initialized, db, collection, docs>>
  /\ \/ /\ alreadyInitialized
        /\ pc' = [pc EXCEPT ![p] = "afterInit"]
        /\ outcome' = [outcome EXCEPT ![p] = "pending"]
        /\ UNCHANGED <<usedNames, local, attempts, repeated>>
     \/ /\ ~alreadyInitialized
        /\ attempts' = attempts + 1
        /\ repeated' = (repeated \/ usedNames)
        /\ \/ /\ ~usedNames      \* the name is registered, creation starts
              /\ usedNames' = TRUE
              /\ pc' = [pc EXCEPT ![p] = "awaitCreate"]
              /\ outcome' = [outcome EXCEPT ![p] = "pending"]
              /\ UNCHANGED local
           \/ /\ usedNames       \* RxDB throws DB8: name already in use
              /\ Caught(p, "DB8")
              /\ UNCHANGED usedNames

\* `await createRxDatabase(...)` settles; on success this.db is assigned and
\* this.db.addCollections(...) is called.
CreateSettles(p) ==
  /\ pc[p] = "awaitCreate"
  /\ ret' = NoRet
  /\ UNCHANGED unpackVars
  /\ UNCHANGED <<envVars, initialized, collection, docs, histVars>>
  /\ \/ /\ db' = DbHandle
        /\ pc' = [pc EXCEPT ![p] = "awaitAddCollections"]
        /\ UNCHANGED <<usedNames, outcome, local>>
     \/ /\ usedNames' = FALSE     \* storage creation failed: name released
        /\ Caught(p, "storage")
        /\ UNCHANGED db

\* `await this.db.addCollections(...)` settles; on success the collection
\* and the initialized flag are set and initializeDatabase() returns.
AddCollectionsSettles(p) ==
  /\ pc[p] = "awaitAddCollections"
  /\ ret' = NoRet
  /\ UNCHANGED unpackVars
  /\ UNCHANGED <<envVars, db, usedNames, docs, histVars>>
  /\ \/ /\ collection' = RecipesOf(db)
        /\ initialized' = TRUE
        /\ pc' = [pc EXCEPT ![p] = "afterInit"]
        /\ UNCHANGED <<outcome, local>>
     \/ /\ Caught(p, "storage")
        /\ UNCHANGED <<collection, initialized>>

\* After `await this.initializeDatabase()`: the directory is read and
\* bulkInsert is called (its write is one storage operation).
ReadAndInsert(p) ==
  /\ pc[p] = "afterInit"
  /\ ret' = NoRet
  /\ UNCHANGED unpackVars
  /\ UNCHANGED <<envVars, initialized, db, collection, usedNames, histVars>>
  /\ \/ /\ ~dirExists            \* logged; load() returns
        /\ pc' = [pc EXCEPT ![p] = "done"]
        /\ outcome' = [outcome EXCEPT ![p] = "resolved"]
        /\ UNCHANGED <<docs, local>>
     \/ /\ dirExists
        /\ LET recipes == readRecipes(files, 1)
           IN \/ /\ Len(recipes) > 0 /\ collection # Nil
                 /\ \E storageFails \in BOOLEAN :
                      LET results == bulkInsert(docs, recipes, storageFails)
                      IN /\ docs' = results.docs
                         /\ local' = [local EXCEPT ![p] =
                                        [recipes |-> recipes,
                                         errors |-> results.error,
                                         count |-> Nil,
                                         thrown |-> results.thrown]]
                 /\ pc' = [pc EXCEPT ![p] = "awaitInsert"]
                 /\ UNCHANGED outcome
              \/ /\ ~(Len(recipes) > 0 /\ collection # Nil)
                 /\ pc' = [pc EXCEPT ![p] = "awaitCount"]
                 /\ UNCHANGED <<docs, outcome, local>>

\* `await this.collection.bulkInsert(recipes)` settles: the errors of the
\* result, or the thrown error in the inner catch, are logged; then
\* count().exec() is called.
InsertSettles(p) ==
  /\ pc[p] = "awaitInsert"
  /\ pc' = [pc EXCEPT ![p] = "awaitCount"]
  /\ ret' = NoRet
  /\ UNCHANGED unpackVars
  /\ UNCHANGED <<envVars, storeVars, histVars, outcome, local>>

\* `await this.collection?.count().exec()` settles: the count is logged and
\* load() resolves.
CountSettles(p) ==
  /\ pc[p] = "awaitCount"
  /\ local' = [local EXCEPT ![p].count =
                 IF collection # Nil THEN Num(count(docs)) ELSE Nil]
  /\ pc' = [pc EXCEPT ![p] = "done"]
  /\ outcome' = [outcome EXCEPT ![p] = "resolved"]
  /\ ret' = NoRet
  /\ UNCHANGED unpackVars
  /\ UNCHANGED <<envVars, storeVars, histVars>>

LoadStep(p) ==
  \/ StartLoad(p)
  \/ CreateSettles(p)
  \/ AddCollectionsSettles(p)
  \/ ReadAndInsert(p)
  \/ InsertSettles(p)
  \/ CountSettles(p)

\* ----------------------------------------------------------------- reads
\* String.prototype.toLowerCase over the characters of the model.
lowerChar(c) == CASE c = "A" -> "a" [] c = "B" -> "b" [] OTHER -> c
toLowerCase(s) == [i \in 1..Len(s) |-> lowerChar(s[i])]

\* String.prototype.trim
RECURSIVE trimStart(_)
trimStart(s) == IF s # <<>> /\ Head(s) = " " THEN trimStart(Tail(s)) ELSE s
RECURSIVE trimEnd(_)
trimEnd(s) ==
  IF s # <<>> /\ s[Len(s)] = " " THEN trimEnd(SubSeq(s, 1, Len(s) - 1)) ELSE s
trim(s) == trimEnd(trimStart(s))

\* String.prototype.includes
includes(s, q) ==
  \E i \in 0..(Len(s) - Len(q)) : SubSeq(s, i + 1, i + Len(q)) = q

\* The `fields?` argument: omitted, or an array of field names.
NoFields == [given |-> FALSE, list |-> <<>>]
Fields(l) == [given |-> TRUE, list |-> l]

\* The default of search(): name, description, ingredients and notes.
defaultSearchFields == <<"name", "description", "ingredients", "notes">>

\* Array.prototype.map(doc => doc.toJSON())
mapToJSON(held, ids) == [i \in 1..Len(ids) |-> toJSON(held[ids[i]])]

\* Variant of list: without the `if (!this.collection)` guard the call on a
\* null collection raises.
listUnguarded ==
  IF collection = Nil THEN [t |-> "error", v |-> "TypeError"] ELSE mapToJSON(docs, find(docs))

\* RecipeStore.list()
list ==
  IF collection = Nil THEN <<>> ELSE mapToJSON(docs, find(docs))

\* Variant of getByUid: findOne() without the selector.
getByUidNoSelector(uid) ==
  IF collection = Nil THEN Nil
  ELSE IF find(docs) # <<>> THEN toJSON(docs[Head(find(docs))]) ELSE Nil

\* RecipeStore.getByUid(uid): findOne({selector: {uid}})
getByUid(uid) ==
  IF collection = Nil THEN Nil
  ELSE LET found == SelectSeq(find(docs), LAMBDA u : docs[u][primaryKey] = uid)
       IN IF found # <<>> THEN toJSON(docs[Head(found)]) ELSE Nil

\* The filter of search(): some search field holds a string that contains
\* the lower-cased query.
matches(recipe, searchFields, queryLower) ==
  \E k \in 1..Len(searchFields) :
    LET field == searchFields[k]
        fieldValue == IF field \in DOMAIN recipe THEN recipe[field] ELSE Nil
    IN fieldValue.t = "string" /\ includes(toLowerCase(fieldValue.v), queryLower)

\* Variant of search: the empty-query test without trim().
searchNoTrim(query, fields) ==
  IF collection = Nil THEN <<>>
  ELSE IF query = <<>>
    THEN mapToJSON(docs, find(docs))
  ELSE LET searchFields == IF fields.given THEN fields.list
                           ELSE defaultSearchFields
           queryLower == toLowerCase(query)
           matchedDocs == SelectSeq(find(docs), LAMBDA u :
                            matches(toJSON(docs[u]), searchFields, queryLower))
       IN mapToJSON(docs, matchedDocs)

\* Variant of search: the query is compared without toLowerCase().
searchQueryAsGiven(query, fields) ==
  IF collection = Nil THEN <<>>
  ELSE IF query = <<>> \/ trim(query) = <<>>
    THEN mapToJSON(docs, find(docs))
  ELSE LET searchFields == IF fields.given THEN fields.list
                           ELSE defaultSearchFields
           matchedDocs == SelectSeq(find(docs), LAMBDA u :
                            matches(toJSON(docs[u]), searchFields, query))
       IN mapToJSON(docs, matchedDocs)

\* Variant of search: the fields argument is ignored.
searchDefaultFieldsOnly(query, fields) ==
  IF collection = Nil THEN <<>>
  ELSE IF query = <<>> \/ trim(query) = <<>>
    THEN mapToJSON(docs, find(docs))
  ELSE LET queryLower == toLowerCase(query)
           matchedDocs == SelectSeq(find(docs), LAMBDA u :
                            matches(toJSON(docs[u]), defaultSearchFields, queryLower))
       IN mapToJSON(docs, matchedDocs)

\* Variant of search: an empty fields list falls back to the default too.
searchEmptyFallsBack(query, fields) ==
  IF collection = Nil THEN <<>>
  ELSE IF query = <<>> \/ trim(query) = <<>>
    THEN mapToJSON(docs, find(docs))
  ELSE LET searchFields == IF fields.given /\ fields.list # <<>> THEN fields.list
                           ELSE defaultSearchFields
           queryLower == toLowerCase(query)
           matchedDocs == SelectSeq(find(docs), LAMBDA u :
                            matches(toJSON(docs[u]), searchFields, queryLower))
       IN mapToJSON(docs, matchedDocs)

\* RecipeStore.search(query, fields)
search(query, fields) ==
  IF collection = Nil THEN <<>>
  ELSE IF query = <<>> \/ trim(query) = <<>>
    THEN mapToJSON(docs, find(docs))
  ELSE LET searchFields == IF fields.given THEN fields.list
                           ELSE defaultSearchFields
           queryLower == toLowerCase(query)
           matchedDocs == SelectSeq(find(docs), LAMBDA u :
                            matches(toJSON(docs[u]), searchFields, queryLower))
       IN mapToJSON(docs, matchedDocs)

\* RecipeStore.getCount()
getCount == IF collection = Nil THEN 0 ELSE count(docs)

\* Arguments the callers pass.
QueryChars == {"B", " "}
Queries == SeqsUpTo(QueryChars, MaxQueryLen)
FieldArgs ==
  {NoFields, Fields(<<>>), Fields(<<"name">>), Fields(<<"notes", "description">>),
   Fields(<<"source", "rating", "categories", "photo">>)}
UidArgs == {Uid("A"), Uid("B"), Uid("C"), Uid("D")}

\* Variant of a read: it marks the store initialized on its way.
ReadInitializes(op, query, fields, uid, value) ==
  /\ ret' = [op |-> op, query |-> query, fields |-> fields, uid |-> uid,
             value |-> value]
  /\ initialized' = TRUE
  /\ UNCHANGED <<envVars, db, collection, usedNames, docs, histVars, pc,
                 outcome, local, unpackVars>>

Read(op, query, fields, uid, value) ==
  /\ ret' = [op |-> op, query |-> query, fields |-> fields, uid |-> uid,
             value |-> value]
  /\ UNCHANGED <<envVars, storeVars, histVars, pc, outcome, local, unpackVars>>

List == Read("list", <<>>, <<>>, <<>>, list)

GetByUid(uid) == Read("getByUid", <<>>, <<>>, uid, getByUid(uid))

Search(query, fields) == Read("search", query, fields, <<>>, search(query, fields))

GetCount == Read("getCount", <<>>, <<>>, <<>>, getCount)

\* The caller has taken the value a read returned.
TakeResult ==
  /\ ret.op # "none"
  /\ ret' = NoRet
  /\ UNCHANGED <<envVars, storeVars, histVars, pc, outcome, local, unpackVars>>

\* ----------------------------------------------------------------- tools
\* The properties a tool copies from a record; one the record lacks is
\* undefined.
projection == {"uid", "name", "description", "categories", "total_time", "difficulty"}
project(r) == [f \in projection |-> IF f \in DOMAIN r THEN r[f] ELSE Nil]
mapProject(results) == [i \in 1..Len(results) |-> project(results[i])]

\* Array.prototype.slice(0, end) for end >= 0
slice(a, end) == SubSeq(a, 1, IF end < Len(a) THEN end ELSE Len(a))

\* ListRecipesTool.execute: structuredContent
listRecipes(limit) ==
  LET results == list
      recipes == slice(mapProject(results), limit)
  IN [recipes |-> recipes, count |-> Len(recipes)]

\* Variant of SearchRecipesTool.execute: the count is taken after slice().
searchRecipesCountReturned(searchQuery, fields, limit) ==
  LET matchedRecipes == search(searchQuery, fields)
      recipes == slice(mapProject(matchedRecipes), limit)
  IN [recipes |-> recipes, count |-> Len(recipes)]

\* SearchRecipesTool.execute: structuredContent
searchRecipes(searchQuery, fields, limit) ==
  LET matchedRecipes == search(searchQuery, fields)
      recipes == slice(mapProject(matchedRecipes), limit)
  IN [recipes |-> recipes, count |-> Len(matchedRecipes)]

\* Arguments of the tool calls; `fields` is an optional array over the enum
\* name, description, ingredients, notes.
Limits == 0..MaxLimit
ToolFieldArgs ==
  {NoFields, Fields(<<>>), Fields(<<"name">>), Fields(<<"notes", "description">>)}

ListRecipes(limit) ==
  Read("list-recipes", <<>>, <<>>, <<>>,
       [limit |-> limit, structuredContent |-> listRecipes(limit)])

SearchRecipes(searchQuery, fields, limit) ==
  Read("search-recipes", searchQuery, fields, <<>>,
       [limit |-> limit, structuredContent |-> searchRecipes(searchQuery, fields, limit)])

\* ---------------------------------------------------------------- loader
\* fs.readFileSync(filePath, "utf-8"): the content, or an error (EISDIR,
\* EACCES, ...).
Unreadable == [parses |-> FALSE, value |-> <<"EISDIR">>]
readFileSync(file) ==
  IF file.content = Unreadable THEN [thrown |-> TRUE, content |-> Garbage]
  ELSE [thrown |-> FALSE, content |-> file.content]

\* Variant of the loader's loop: a file that fails is not caught.
RECURSIVE loadFilesUncaught(_, _)
loadFilesUncaught(jsonFiles, i) ==
  IF i > Len(jsonFiles) THEN <<>>
  ELSE LET fileContent == readFileSync(jsonFiles[i])
           recipe == JSONparse(fileContent.content)
       IN IF fileContent.thrown \/ recipe.thrown
            THEN <<[t |-> "error", v |-> "thrown"]>>
          ELSE <<recipe.value>> \o loadFilesUncaught(jsonFiles, i + 1)

\* Variant of the loader's load(): a file that fails is not caught.
loaderLoadUncaught(exists, dir) ==
  IF ~exists THEN <<>>
  ELSE loadFilesUncaught(SelectSeq(dir, endsWithJson), 1)

\* The loop of FileSystemRecipeLoader.load() over jsonFiles: a file that
\* cannot be read or does not parse is logged and skipped.
RECURSIVE loadFiles(_, _)
loadFiles(jsonFiles, i) ==
  IF i > Len(jsonFiles) THEN <<>>
  ELSE LET fileContent == readFileSync(jsonFiles[i])
           recipe == JSONparse(fileContent.content)
       IN IF fileContent.thrown \/ recipe.thrown
            THEN loadFiles(jsonFiles, i + 1)
          ELSE <<recipe.value>> \o loadFiles(jsonFiles, i + 1)

\* FileSystemRecipeLoader.load() on a directory
loaderLoad(exists, dir) ==
  IF ~exists THEN <<>>
  ELSE loadFiles(SelectSeq(dir, endsWithJson), 1)

LoaderLoad(exists, dir) ==
  Read("loader.load", <<>>, <<>>, <<>>, loaderLoad(exists, dir))

\* Directories the loader is pointed at.
LoaderFilePool ==
  FilePool \cup {File(".json", Unreadable), File(".json", JsonText(JsNull)),
                 File(".txt", Garbage)}

\* ---------------------------------------------------------------- unpack
\* The bytes of an archive entry: readable from the zip or not, gzip data or
\* not, and the text the gzip data holds.
Gz(text) == [readable |-> TRUE, gzip |-> TRUE, text |-> text]
NotGzip == [readable |-> TRUE, gzip |-> FALSE, text |-> Garbage]
BadZipEntry == [readable |-> FALSE, gzip |-> FALSE, text |-> Garbage]

\* An entry of directory.files
Entry(type, ext, data) == [type |-> type, ext |-> ext, data |-> data]

R8 == ("uid" :> Str(<<>>)) @@ ("name" :> Str(<<"a">>))
R9 == ("uid" :> Uid("C")) @@ ("name" :> Str(<<"b">>))
        @@ ("rating" :> Num(MaxNumber + 2))

EntryPool ==
  {Entry("File", ".paprikarecipe", Gz(JsonText(r))) : r \in {R1, R2, R3, R5, R8, R9}}
    \cup {Entry("File", ".paprikarecipe", Gz(JsonText(JsNull))),
          Entry("File", ".paprikarecipe", Gz(JsonText(Num(5)))),
          Entry("File", ".paprikarecipe", Gz(Garbage)),
          Entry("File", ".paprikarecipe", NotGzip),
          Entry("File", ".paprikarecipe", BadZipEntry),
          Entry("File", ".txt", Gz(JsonText(R3))),
          Entry("Directory", ".paprikarecipe", BadZipEntry)}

\* The input file: missing, present but not a zip archive, or an archive.
NoArchive == [exists |-> FALSE, opens |-> FALSE, files |-> <<>>]
NotZip == [exists |-> TRUE, opens |-> FALSE, files |-> <<>>]
Zip(entries) == [exists |-> TRUE, opens |-> TRUE, files |-> entries]
Archives ==
  {NoArchive, NotZip} \cup {Zip(e) : e \in SeqsUpTo(EntryPool, MaxEntries)}

\* The output directory before the run: missing, empty, or holding the file
\* A.json of an earlier run.
OutDirs == {<<>>, (<<"A">> :> JsonText(R2))}

\* The order in which readdirSync lists the output directory.
NameOrder == <<<<"A">>, <<"B">>, <<"C">>>>
readdirSync(dir) ==
  LET names == SelectSeq(NameOrder, LAMBDA n : n \in DOMAIN dir)
  IN [i \in 1..Len(names) |-> File(".json", dir[names[i]])]

UnpackNotStarted ==
  /\ upc = "start"
  /\ cursor = 0
  /\ processedCount = 0
  /\ errorCount = 0
  /\ pending = Nil
  /\ report = <<>>
  /\ summary = Nil

\* recipe.uid: a TypeError on null, undefined on a value without the property.
uidOf(recipe) ==
  IF recipe = JsNull THEN [thrown |-> TRUE, value |-> Nil]
  ELSE IF typeOf(recipe) = "object" /\ DOMAIN recipe # {"t", "v"} /\ "uid" \in DOMAIN recipe
    THEN [thrown |-> FALSE, value |-> recipe["uid"]]
  ELSE [thrown |-> FALSE, value |-> Nil]

\* Variant of the uid test: only a missing uid is refused.
falsyUndefinedOnly(val) == val.t = "undefined"

\* !value
falsy(val) ==
  \/ val.t \in {"undefined", "null"}
  \/ val.t = "string" /\ val.v = <<>>
  \/ val.t = "number" /\ val.v = 0
  \/ val.t = "boolean" /\ val.v = FALSE

\* `${recipe.uid}`
templateString(val) == IF val.t = "string" THEN val.v ELSE <<ToString(val.v)>>

\* Variant of the entry test: every entry of type File is taken.
isRecipeEntryAnyFile(file) == file.type = "File"

\* file.type === 'File' && file.path.endsWith('.paprikarecipe')
isRecipeEntry(file) == file.type = "File" /\ file.ext = ".paprikarecipe"

\* unzipper.Open.file(inputFile): the central directory, or an error.
openFileLenient(input) == [thrown |-> FALSE, files |-> input.files]
openFile(input) ==
  IF input.opens THEN [thrown |-> FALSE, files |-> input.files]
  ELSE [thrown |-> TRUE, files |-> <<>>]

\* Variant of writeFile: an existing file is kept (flag 'wx').
writeFileExclusive(dir, name, data) == dir @@ (name :> data)

\* writeFile(outputPath, data, 'utf-8'): the directory after the write.
writeFile(dir, name, data) == (name :> data) @@ dir

Logged(class) == report' = Append(report, [entry |-> cursor, class |-> class])

\* Variant of the inner catch: the entry is logged but not counted.
EntryFailsUncounted ==
  /\ Logged("Error processing")
  /\ errorCount' = errorCount
  /\ cursor' = cursor + 1

\* The inner catch: the entry is logged as failed and counted.
EntryFails ==
  /\ Logged("Error processing")
  /\ errorCount' = errorCount + 1
  /\ cursor' = cursor + 1

\* existsSync(inputFile), then mkdir(outputDir, {recursive: true})
StartUnpack ==
  /\ upc = "start"
  /\ IF ~archive.exists THEN upc' = "exit1" ELSE upc' = "awaitMkdir"
  /\ UNCHANGED <<archive, outDirExists, outDir, cursor, processedCount,
                 errorCount, pending, report, summary>>
  /\ UNCHANGED <<envVars, storeVars, histVars, loadVars, ret>>

\* mkdir settles; the counters are set and unzipper.Open.file is called.
MkdirSettles ==
  /\ upc = "awaitMkdir"
  /\ \/ /\ outDirExists' = TRUE
        /\ upc' = "awaitOpen"
     \/ /\ ~outDirExists
        /\ outDirExists' = FALSE
        /\ upc' = "rejected"
  /\ processedCount' = 0
  /\ errorCount' = 0
  /\ UNCHANGED <<archive, outDir, cursor, pending, report, summary>>
  /\ UNCHANGED <<envVars, storeVars, histVars, loadVars, ret>>

\* Open.file settles: the loop starts, or the outer catch exits.
OpenSettles ==
  /\ upc = "awaitOpen"
  /\ IF ~openFile(archive).thrown THEN upc' = "loop" /\ cursor' = 1
     ELSE upc' = "exit1" /\ cursor' = cursor
  /\ UNCHANGED <<archive, outDirExists, outDir, processedCount, errorCount,
                 pending, report, summary>>
  /\ UNCHANGED <<envVars, storeVars, histVars, loadVars, ret>>

\* An entry that is not a .paprikarecipe file is passed over.
SkipEntry ==
  /\ upc = "loop"
  /\ cursor <= Len(archive.files)
  /\ ~isRecipeEntry(archive.files[cursor])
  /\ cursor' = cursor + 1
  /\ UNCHANGED <<archive, outDirExists, outDir, upc, processedCount, errorCount,
                 pending, report, summary>>
  /\ UNCHANGED <<envVars, storeVars, histVars, loadVars, ret>>

\* One entry from file.buffer() to the call of writeFile.
ProcessEntry ==
  /\ upc = "loop"
  /\ cursor <= Len(archive.files)
  /\ isRecipeEntry(archive.files[cursor])
  /\ LET file == archive.files[cursor]
         parsed == JSONparse(file.data.text)
         recipe == parsed.value
         uid == uidOf(recipe)
     IN IF ~file.data.readable \/ ~file.data.gzip \/ parsed.thrown \/ uid.thrown
          THEN EntryFails /\ UNCHANGED <<upc, processedCount, pending>>
        ELSE IF falsy(uid.value)
          THEN /\ Logged("No UID field found")
               /\ errorCount' = errorCount + 1
               /\ cursor' = cursor + 1
               /\ UNCHANGED <<upc, processedCount, pending>>
        ELSE /\ pending' = [name |-> templateString(uid.value),
                            data |-> JSONstringify(recipe)]
             /\ upc' = "awaitWrite"
             /\ UNCHANGED <<cursor, processedCount, errorCount, report>>
  /\ UNCHANGED <<archive, outDirExists, outDir, summary>>
  /\ UNCHANGED <<envVars, storeVars, histVars, loadVars, ret>>

\* writeFile settles: the file holds the text; or the call fails, leaving the
\* directory as it was or the file cut short.
WriteSettles ==
  /\ upc = "awaitWrite"
  /\ \/ /\ outDir' = writeFile(outDir, pending.name, pending.data)
        /\ Logged("Converted")
        /\ processedCount' = processedCount + 1
        /\ cursor' = cursor + 1
        /\ UNCHANGED errorCount
     \/ /\ outDir' \in {outDir, (pending.name :> Garbage) @@ outDir}
        /\ EntryFails
        /\ UNCHANGED processedCount
  /\ pending' = Nil
  /\ upc' = "loop"
  /\ UNCHANGED <<archive, outDirExists, summary>>
  /\ UNCHANGED <<envVars, storeVars, histVars, loadVars, ret>>

\* After the last entry the summary is logged and the run returns.
Summary ==
  /\ upc = "loop"
  /\ cursor > Len(archive.files)
  /\ summary' = [processed |-> processedCount, errors |-> errorCount]
  /\ upc' = "returned"
  /\ UNCHANGED <<archive, outDirExists, outDir, cursor, processedCount,
                 errorCount, pending, report>>
  /\ UNCHANGED <<envVars, storeVars, histVars, loadVars, ret>>

UnpackStep ==
  \/ StartUnpack
  \/ MkdirSettles
  \/ OpenSettles
  \/ SkipEntry
  \/ ProcessEntry
  \/ WriteSettles
  \/ Summary

UnpackEnded == upc \in {"returned", "exit1", "rejected"}

\* ----------------------------------------------------------- environment
\* A later version of a recipe file: the same uid, other fields.
Revised(rec) ==
  CASE rec = R1 -> R2
    [] rec = R3 -> R6
    [] rec = R7 -> R4
    [] OTHER -> rec

\* Between two load() calls a file of recipesDir is rewritten.
EditFile(i) ==
  /\ i \in 1..Len(files)
  /\ files[i].content.parses
  /\ Revised(files[i].content.value) # files[i].content.value
  /\ files' = [files EXCEPT ![i].content = JsonText(Revised(files[i].content.value))]
  /\ UNCHANGED <<dirExists, storeVars, histVars, loadVars, ret, unpackVars>>

\* ----------------------------------------------------------- specification
Init ==
  /\ dirExists \in BOOLEAN
  /\ files \in SeqsUpTo(FilePool, MaxFiles)
  /\ (~dirExists => files = <<>>)
  /\ initialized = FALSE
  /\ db = Nil
  /\ collection = Nil
  /\ usedNames = FALSE
  /\ docs = <<>>
  /\ pc = [p \in Procs |-> "idle"]
  /\ outcome = [p \in Procs |-> "none"]
  /\ local = [p \in Procs |-> NoLocal]
  /\ attempts = 0
  /\ repeated = FALSE
  /\ overlap = FALSE
  /\ ret = NoRet
  /\ archive = NoArchive
  /\ outDirExists = FALSE
  /\ outDir = <<>>
  /\ UnpackNotStarted

Next == \E p \in Procs : LoadStep(p)

Spec == Init /\ [][Next]_vars

\* One caller that awaits each call before making the next one: load() calls
\* run one at a time, in the order of their numbers, and the reads come
\* between them.
Quiescent == \A p \in Procs : ~InFlight(p)
CallerReady == Quiescent /\ ret.op = "none"
NextCall(p) == Quiescent /\ \A q \in 1..(p - 1) : pc[q] = "done"

QueryNext ==
  \/ \E p \in Procs : (pc[p] = "idle" => NextCall(p)) /\ LoadStep(p)
  \/ CallerReady /\ List
  \/ CallerReady /\ \E uid \in UidArgs : GetByUid(uid)
  \/ CallerReady /\ \E query \in Queries, fields \in FieldArgs : Search(query, fields)
  \/ CallerReady /\ GetCount
  \/ TakeResult

SpecQuery == Init /\ [][QueryNext]_vars

\* One store over its lifetime: load() calls one at a time, the directory
\* edited between them, and reads.
GrowNext ==
  \/ \E p \in Procs : (pc[p] = "idle" => NextCall(p)) /\ LoadStep(p)
  \/ CallerReady /\ \E i \in 1..MaxFiles : EditFile(i)
  \/ CallerReady /\ List
  \/ CallerReady /\ \E uid \in {Uid("A")} : GetByUid(uid)
  \/ CallerReady /\ \E query \in {<<"B">>}, fields \in {NoFields} : Search(query, fields)
  \/ CallerReady /\ GetCount
  \/ TakeResult

SpecGrow == Init /\ [][GrowNext]_vars

\* The MCP server: the recipes are loaded once, and tool calls are answered
\* from the store before and after.
ToolNext ==
  \/ \E p \in {1} : LoadStep(p)
  \/ CallerReady /\ \E limit \in Limits : ListRecipes(limit)
  \/ CallerReady /\ \E searchQuery \in Queries, fields \in ToolFieldArgs, limit \in Limits :
                       SearchRecipes(searchQuery, fields, limit)
  \/ TakeResult

SpecTools == Init /\ [][ToolNext]_vars

\* The loader pointed at a directory of files.
InitLoader ==
  /\ dirExists \in BOOLEAN
  /\ files \in SeqsUpTo(LoaderFilePool, MaxFiles)
  /\ (~dirExists => files = <<>>)
  /\ initialized = FALSE
  /\ db = Nil
  /\ collection = Nil
  /\ usedNames = FALSE
  /\ docs = <<>>
  /\ pc = [p \in Procs |-> "idle"]
  /\ outcome = [p \in Procs |-> "none"]
  /\ local = [p \in Procs |-> NoLocal]
  /\ attempts = 0
  /\ repeated = FALSE
  /\ overlap = FALSE
  /\ ret = NoRet
  /\ archive = NoArchive
  /\ outDirExists = FALSE
  /\ outDir = <<>>
  /\ UnpackNotStarted

LoaderNext ==
  \/ ret.op = "none" /\ LoaderLoad(dirExists, files)
  \/ TakeResult

SpecLoader == InitLoader /\ [][LoaderNext]_vars

\* The unpack command on an archive and an output directory, and then the
\* loader pointed at the output directory.
InitUnpack ==
  /\ dirExists = FALSE
  /\ files = <<>>
  /\ initialized = FALSE
  /\ db = Nil
  /\ collection = Nil
  /\ usedNames = FALSE
  /\ docs = <<>>
  /\ pc = [p \in Procs |-> "idle"]
  /\ outcome = [p \in Procs |-> "none"]
  /\ local = [p \in Procs |-> NoLocal]
  /\ attempts = 0
  /\ repeated = FALSE
  /\ overlap = FALSE
  /\ ret = NoRet
  /\ archive \in Archives
  /\ outDir \in OutDirs
  /\ outDirExists \in BOOLEAN
  /\ (outDir # <<>> => outDirExists)
  /\ UnpackNotStarted

UnpackNext ==
  \/ UnpackStep
  \/ UnpackEnded /\ ret.op = "none" /\ LoaderLoad(outDirExists, readdirSync(outDir))
  \/ TakeResult

SpecUnpack == InitUnpack /\ [][UnpackNext]_vars

\* The event loop runs every continuation of the run that is ready.
FairUnpack == SpecUnpack /\ WF_vars(UnpackStep)

\* ------------------------------------------------------------- properties
\* What load() obtains from its source: the parsed records of the directory.
LoaderOutput == IF dirExists THEN readRecipes(files, 1) ELSE <<>>

ValidRows(batch) == {i \in 1..Len(batch) : SchemaValid(batch[i])}
ValidUids(batch) == {batch[i][primaryKey] : i \in ValidRows(batch)}

Settled(p) == pc[p] = "done"
NoStorageFailure == \A p \in Procs : local[p].thrown # "storage"

\* The call has made its bulkInsert and the storage did not fail.
Inserted(p) == local[p].recipes # <<>> /\ local[p].thrown # "storage"

\* The records the store holds.
Held == IF collection = Nil THEN {} ELSE {toJSON(docs[u]) : u \in DOMAIN docs}

Range(seq) == {seq[i] : i \in 1..Len(seq)}

\* C1: after any number n >= 1 of load() calls made one after the other
\* against the same source, getCount() is the number of distinct uids among
\* the valid records of that source.
C1_SequentialLoadCount ==
  (~overlap /\ Quiescent /\ (\E p \in Procs : Settled(p)) /\ NoStorageFailure)
    => getCount = Cardinality(ValidUids(LoaderOutput))

\* C2: once several load() calls that were started concurrently have all
\* settled, getCount() is the number of distinct uids of the source and none
\* of the calls has rejected.
C2_ConcurrentLoadCount ==
  (overlap /\ (\A p \in Procs : Settled(p)) /\ NoStorageFailure)
    => /\ getCount = Cardinality(ValidUids(LoaderOutput))
       /\ \A p \in Procs : outcome[p] = "resolved"

\* C3: no creation of the backing database is attempted after a first one
\* has started.
C3_NoSecondCreation == ~repeated

\* The first row of a batch that carries a given uid.
FirstRow(batch, u) ==
  CHOOSE i \in 1..Len(batch) :
    /\ PrimaryOf(batch[i]) = u
    /\ \A j \in 1..(i - 1) : PrimaryOf(batch[j]) # u

\* C4: when a batch holds two or more valid records with one uid, after the
\* insert the store holds the first of them in batch order, the insert has
\* not raised, and the other valid records of the batch are held too.
C4_FirstDuplicateWins ==
  \A p \in Procs :
    LET batch == local[p].recipes
        dup == {u \in ValidUids(batch) :
                  Cardinality({i \in ValidRows(batch) : batch[i][primaryKey] = u}) > 1}
    IN (Inserted(p) /\ dup # {}) =>
         /\ local[p].thrown = "none"
         /\ \A u \in dup :
              SchemaValid(batch[FirstRow(batch, u)]) => batch[FirstRow(batch, u)] \in Held
         /\ ValidUids(batch) \subseteq {r[primaryKey] : r \in Held}

\* C5: a record that fails validation is never held and does not abort the
\* batch: after the insert every valid record of the batch has its uid held,
\* and every held record is valid (string uid, string name).
C5_InvalidRecordSkipped ==
  /\ \A r \in Held : SchemaValid(r)
  /\ \A p \in Procs :
       Inserted(p) => ValidUids(local[p].recipes) \subseteq {r[primaryKey] : r \in Held}

\* A query that is empty or only whitespace.
Blank(query) == \A i \in 1..Len(query) : query[i] = " "

\* q, case-folded, is a substring of the case-folded string value of a field.
FieldContains(r, field, q) ==
  /\ field \in DOMAIN r
  /\ r[field].t = "string"
  /\ includes(toLowerCase(r[field].v), toLowerCase(q))

\* C6: load() never rejects, whatever the source yields and whatever fails;
\* while the backing storage is not initialized every read returns empty.
C6_LoadNeverRejects ==
  /\ \A p \in Procs : outcome[p] # "rejected"
  /\ \A p \in Procs : Settled(p) => outcome[p] = "resolved"
  /\ ~initialized =>
       /\ ret.op \in {"list", "search"} => ret.value = <<>>
       /\ ret.op = "getByUid" => ret.value = Nil
       /\ ret.op = "getCount" => ret.value = 0

\* C6 witness: initialization failed in the storage, the call settled, and a
\* read was then answered.
C6_Witness ==
  /\ \E p \in Procs : Settled(p) /\ local[p].thrown = "storage"
  /\ ~initialized
  /\ ret.op = "getCount"

\* C7: search with an empty or all-whitespace query returns what list()
\* returns, whatever the fields argument.
C7_BlankQueryIsList ==
  (ret.op = "search" /\ Blank(ret.query)) => ret.value = list

\* C7 witness: a whitespace query with a fields argument on a store of two.
C7_Witness ==
  /\ ret.op = "search"
  /\ ret.query = <<" ", " ">>
  /\ ret.fields = Fields(<<"name">>)
  /\ Len(ret.value) = 2

\* C8: search(q) without a fields argument returns every held record one of
\* whose fields name, description, ingredients, notes contains q, case-folded.
C8_SearchComplete ==
  (ret.op = "search" /\ ~Blank(ret.query) /\ ~ret.fields.given) =>
    \A r \in Held :
      (\E f \in {"name", "description", "ingredients", "notes"} :
         FieldContains(r, f, ret.query)) => r \in Range(ret.value)

\* C8 witness: an upper-case query found in the description of one held
\* record and, lower-case, in the ingredients of another.
C8_Witness ==
  /\ ret.op = "search"
  /\ ret.query = <<"B", " ">>
  /\ ~ret.fields.given
  /\ Range(ret.value) = {R3, R7}

\* C9: search(q, fields) returns a record only if a listed field holds a
\* string that contains q, case-folded.
C9_SearchRestricted ==
  (ret.op = "search" /\ ~Blank(ret.query) /\ ret.fields.given) =>
    \A r \in Range(ret.value) :
      \E k \in 1..Len(ret.fields.list) : FieldContains(r, ret.fields.list[k], ret.query)

\* C9 witness: R3 matches only in its description (not listed) and its
\* categories (not a string) and is left out, while R7 matches in a listed
\* field.
C9_Witness ==
  /\ ret.op = "search"
  /\ ret.query = <<"B">>
  /\ ret.fields = Fields(<<"source", "rating", "categories", "photo">>)
  /\ R3 \in Held
  /\ Range(ret.value) = {R7}

\* C10: getByUid(uid) returns the held record with that uid when there is
\* one, and null otherwise.
C10_GetByUidExact ==
  ret.op = "getByUid" =>
    IF \E r \in Held : r[primaryKey] = ret.uid
      THEN ret.value \in Held /\ ret.value[primaryKey] = ret.uid
      ELSE ret.value = Nil

\* C10 witness: a lookup that finds a record in a store of two, and one
\* that finds none.
C10_Witness ==
  /\ ret.op = "getByUid"
  /\ ret.uid = Uid("B")
  /\ ret.value = R3
  /\ Cardinality(Held) = 2

\* No load() call has been made on the store.
NeverLoaded == \A p \in Procs : pc[p] = "idle"

\* C11: before the first load(), list() and search(q) return the empty
\* sequence, getByUid(uid) returns null and getCount() returns 0; none of
\* them raises, and none of them initializes the store.
C11_ReadsBeforeLoad ==
  NeverLoaded =>
    /\ ret.op \in {"list", "search"} => ret.value = <<>>
    /\ ret.op = "getByUid" => ret.value = Nil
    /\ ret.op = "getCount" => ret.value = 0
    /\ ~initialized /\ db = Nil /\ collection = Nil /\ ~usedNames
    /\ docs = <<>> /\ attempts = 0

\* C11 witness: list() answered on a store that was never loaded, over a
\* directory that holds a valid record.
C11_Witness ==
  /\ NeverLoaded
  /\ ret.op = "list"
  /\ ValidUids(LoaderOutput) # {}

Min(a, b) == IF a < b THEN a ELSE b

\* The records list() returns, in its order.
HeldInOrder == list

\* C12: the list tool, for a store of N records and a limit L >= 0, returns
\* the projections of the first min(L, N) records and a count equal to N.
C12_ListToolCount ==
  ret.op = "list-recipes" =>
    LET L == ret.value.limit
        N == Len(HeldInOrder)
        out == ret.value.structuredContent
    IN /\ Len(out.recipes) = Min(L, N)
       /\ \A i \in 1..Len(out.recipes) : out.recipes[i] = project(HeldInOrder[i])
       /\ out.count = N

\* C13: the search tool, when search(searchQuery, fields) matches M records
\* and the limit is L >= 0, returns the projections of the first min(L, M)
\* matches and a count equal to M.
C13_SearchToolCount ==
  ret.op = "search-recipes" =>
    LET L == ret.value.limit
        matched == search(ret.query, ret.fields)
        M == Len(matched)
        out == ret.value.structuredContent
    IN /\ Len(out.recipes) = Min(L, M)
       /\ \A i \in 1..Len(out.recipes) : out.recipes[i] = project(matched[i])
       /\ out.count = M

\* C13 witness: two records match and the limit is one.
C13_Witness ==
  /\ ret.op = "search-recipes"
  /\ ret.query = <<"B">>
  /\ ret.value.limit = 1
  /\ Len(ret.value.structuredContent.recipes) = 1
  /\ ret.value.structuredContent.count = 2

\* ---- unpack
\* The entry is a .paprikarecipe file of the archive.
IsRecipeFile(e) == e.type = "File" /\ e.ext = ".paprikarecipe"

\* The entry's bytes decompress and the text parses as JSON.
Decodes(e) == e.data.readable /\ e.data.gzip /\ e.data.text.parses

\* The value is an object with a non-empty string uid.
HasUid(val) ==
  /\ DOMAIN val # {"t", "v"}
  /\ "uid" \in DOMAIN val
  /\ val["uid"].t = "string"
  /\ val["uid"].v # <<>>

\* The entry is successfully normalized.
Normalizes(e) == IsRecipeFile(e) /\ Decodes(e) /\ HasUid(e.data.text.value)

\* The normalized object of an entry.
Normalized(e) == parseValue(e.data.text.value)

Entries == archive.files
RecipeFiles == {i \in 1..Len(Entries) : IsRecipeFile(Entries[i])}
GoodEntries == {i \in 1..Len(Entries) : Normalizes(Entries[i])}
BadEntries == RecipeFiles \ GoodEntries

\* The archive was opened: the loop over its entries has begun.
Opened == upc \in {"loop", "awaitWrite", "returned"}

\* What the run logged for entry i.
ClassOf(i) == {report[k].class : k \in {j \in 1..Len(report) : report[j].entry = i}}

\* A write to the output directory failed.
WriteFailed == \E i \in GoodEntries : "Error processing" \in ClassOf(i)

\* The step handles an entry that is not successfully normalized.
BadEntryStep ==
  /\ upc = "loop"
  /\ cursor \in BadEntries

\* C14: once the archive is opened the run reaches its summary; an entry
\* that fails at decompression, parsing or the identifier check adds one to
\* the error count, writes no file and the loop moves to the next entry; the
\* summary counts the normalized entries as processed and the failed ones as
\* errors, and a run with errors still returns.
C14_RunReachesSummary ==
  /\ Opened ~> (upc = "returned" /\ summary # Nil)
  /\ [][BadEntryStep =>
          /\ errorCount' = errorCount + 1
          /\ processedCount' = processedCount
          /\ outDir' = outDir
          /\ pending' = Nil
          /\ cursor' = cursor + 1
          /\ upc' = "loop"]_vars
  /\ [](errorCount > 0 => Opened)
  /\ []((upc = "returned" /\ ~WriteFailed) =>
          summary = [processed |-> Cardinality(GoodEntries),
                     errors |-> Cardinality(BadEntries)])

\* C14 witness: one corrupt and one valid entry; the run has returned with
\* processed = 1, errors = 1 and a file for the valid entry only.
C14_Witness ==
  /\ upc = "returned"
  /\ Len(Entries) = 2
  /\ ~Decodes(Entries[1]) /\ IsRecipeFile(Entries[1])
  /\ Normalizes(Entries[2])
  /\ summary = [processed |-> 1, errors |-> 1]
  /\ DOMAIN outDir = {<<"B">>}

\* The last normalized entry that carries the uid of file `name`.
LastWith(name) ==
  CHOOSE i \in GoodEntries :
    /\ Normalized(Entries[i])["uid"].v = name
    /\ \A j \in GoodEntries : Normalized(Entries[j])["uid"].v = name => j <= i

Names == {Normalized(Entries[i])["uid"].v : i \in GoodEntries}

\* C15: when several normalized entries carry one uid, after the run the
\* file <uid>.json holds the content of the last of them.
C15_LastWriteWins ==
  (upc = "returned" /\ ~WriteFailed) =>
    \A name \in Names :
      /\ name \in DOMAIN outDir
      /\ outDir[name] = JsonText(serialize(Normalized(Entries[LastWith(name)])))

\* C15 witness: two entries with uid A; the file holds the second, which
\* differs from the first and from the file of the earlier run.
C15_Witness ==
  /\ upc = "returned"
  /\ Len(Entries) = 2
  /\ GoodEntries = {1, 2}
  /\ Names = {<<"A">>}
  /\ Normalized(Entries[1]) = R2
  /\ <<"A">> \in DOMAIN outDir
  /\ outDir[<<"A">>] = JsonText(R1)

\* C16: when the input file is missing or is not a valid container, the run
\* ends only in failure, and no entry is handled, no file is written and no
\* summary is logged.
C16_BadArchiveFails ==
  (~archive.exists \/ ~archive.opens) =>
    /\ ~Opened
    /\ UnpackEnded => upc \in {"exit1", "rejected"}
    /\ report = <<>> /\ pending = Nil
    /\ processedCount = 0 /\ errorCount = 0
    /\ outDir \in OutDirs
    /\ summary = Nil

\* C16 witness: a file that is not a zip archive; the run has exited with
\* status 1 after Open.file failed.
C16_Witness ==
  /\ archive.exists /\ ~archive.opens
  /\ outDirExists
  /\ upc = "exit1"

\* Every number the value holds is finite.
RECURSIVE Finite(_)
Finite(val) ==
  CASE DOMAIN val # {"t", "v"} -> \A f \in DOMAIN val : Finite(val[f])
    [] val.t = "array" -> \A i \in 1..Len(val.v) : Finite(val.v[i])
    [] val.t = "number" -> val.v <= MaxNumber
    [] OTHER -> TRUE

\* The run has returned, every write succeeded, and the loader has then been
\* run over the output directory.
UnpackedAndLoaded ==
  upc = "returned" /\ ~WriteFailed /\ ret.op = "loader.load"

\* The positions of the loader's result that hold the record.
Occurrences(rec) == {i \in 1..Len(ret.value) : ret.value[i] = rec}

LoadableFiles ==
  SelectSeq(files, LAMBDA f : f.ext = ".json" /\ f.content.parses)

\* C18: load() of the loader does not throw for a missing directory or a bad
\* file: without the directory the result is empty; otherwise it holds one
\* record for each .json file that can be read and parsed, in directory
\* order, whatever the other files are.
C18_LoaderSkipsBadFiles ==
  ret.op = "loader.load" =>
    IF ~dirExists THEN ret.value = <<>>
    ELSE /\ Len(ret.value) = Len(LoadableFiles)
         /\ \A i \in 1..Len(LoadableFiles) :
              ret.value[i] = parseValue(LoadableFiles[i].content.value)

\* C18 witness: a file that cannot be read, then a file that parses; the
\* second is returned.
C18_Witness ==
  /\ ret.op = "loader.load"
  /\ Len(files) = 2
  /\ files[1] = File(".json", Unreadable)
  /\ ret.value = <<R3>>

C20_GrowOnly ==
  [][/\ Held \subseteq Held'
     /\ \A u \in DOMAIN docs : u \in DOMAIN docs' /\ docs'[u] = docs[u]
     /\ getCount <= getCount']_vars

\* C20 witness: the store holds R1; the file was then rewritten to R2, with
\* the same uid, and a later load() found R2 and was refused it (409).
C20_Witness ==
  /\ R1 \in Held
  /\ \E p \in Procs :
       /\ Settled(p)
       /\ local[p].recipes = <<R2>>
       /\ local[p].thrown = "none"
       /\ local[p].errors = <<[status |-> 409, documentId |-> Uid("A")]>>

\* ---- store: reads
\* The step is the answer of one of the four read operations.
ReadStep ==
  ret.op = "none" /\ ret'.op \in {"list", "getByUid", "search", "getCount"}

\* The step belongs to a load() call.
LoadMoves == \E p \in Procs : pc'[p] # pc[p]

\* A read answered and not yet followed by a step of load(): the same call
\* made now returns the same value.
RereadSame ==
  /\ ret.op = "list" => list = ret.value
  /\ ret.op = "getByUid" => getByUid(ret.uid) = ret.value
  /\ ret.op = "search" => search(ret.query, ret.fields) = ret.value
  /\ ret.op = "getCount" => getCount = ret.value

\* C21: list(), getByUid(), search() and getCount() leave the initialization
\* flag, the collection and the held records as they were; the held records
\* change only in a step of load(); and the same read made again with no
\* step of load() in between returns the same records.
C21_ReadsChangeNothing ==
  /\ [][/\ ReadStep =>
             /\ initialized' = initialized /\ db' = db /\ collection' = collection
             /\ docs' = docs /\ usedNames' = usedNames
        /\ (docs' # docs \/ collection' # collection) => LoadMoves]_vars
  /\ []RereadSame

\* C21 witness: a search answered with the two records the store holds.
C21_Witness ==
  /\ ret.op = "search"
  /\ Cardinality(Held) = 2
  /\ Len(ret.value) = 2
  /\ initialized

\* ---- unpack: effects on the output directory
\* The step counts the entry at the cursor as failed.
EntryFailed == errorCount' = errorCount + 1

\* C22: a step of the unpack run that counts an entry as failed leaves the
\* output directory as it was: no file is created, changed or removed.
C22_FailureLeavesOutput ==
  [][EntryFailed => outDir' = outDir]_vars

\* The entries handled so far that are .paprikarecipe files.
HandledRecipeFiles == {i \in RecipeFiles : i < cursor}

\* The step passes over or finishes the entry at the cursor.
EntryDone == cursor' = cursor + 1

\* C23: in the entry loop processed + errors is the number of .paprikarecipe
\* files handled so far; finishing such an entry adds one to exactly one of
\* the counters and logs it once; an entry that is a directory or has
\* another suffix changes neither a counter nor the output directory; and
\* the summary adds up to the number of .paprikarecipe files.
C23_CountersAddUp ==
  /\ [](Opened =>
          /\ processedCount + errorCount = Cardinality(HandledRecipeFiles)
          /\ {report[k].entry : k \in 1..Len(report)} = HandledRecipeFiles
          /\ Len(report) = Cardinality(HandledRecipeFiles))
  /\ [](upc = "returned" =>
          summary.processed + summary.errors = Cardinality(RecipeFiles))
  /\ [][(EntryDone /\ cursor \in RecipeFiles) =>
          \/ processedCount' = processedCount + 1 /\ errorCount' = errorCount
          \/ processedCount' = processedCount /\ errorCount' = errorCount + 1]_vars
  /\ [][(EntryDone /\ upc = "loop" /\ cursor \notin RecipeFiles) =>
          /\ processedCount' = processedCount /\ errorCount' = errorCount
          /\ outDir' = outDir /\ report' = report /\ pending' = pending]_vars

\* C23 witness: an archive of a file with another suffix and a recipe file;
\* the run has returned with one entry counted.
C23_Witness ==
  /\ upc = "returned"
  /\ Len(Entries) = 2
  /\ Entries[1].type = "File" /\ Entries[1].ext = ".txt"
  /\ RecipeFiles = {2}
  /\ summary = [processed |-> 1, errors |-> 0]

\* ---- store: the fields argument
\* The held records one of whose default fields contains q, case-folded.
DefaultMatches(q) ==
  {r \in Held : \E f \in {"name", "description", "ingredients", "notes"} :
                  FieldContains(r, f, q)}

\* C24: search(q, fields) with a non-blank q and an empty fields list
\* returns no record; without the fields argument it returns exactly the
\* records that match in name, description, ingredients or notes.
C24_EmptyFieldsNoDefault ==
  (ret.op = "search" /\ ~Blank(ret.query)) =>
    /\ ret.fields = Fields(<<>>) => ret.value = <<>>
    /\ ret.fields = NoFields => Range(ret.value) = DefaultMatches(ret.query)

\* C24 witness: an empty fields list and a query that the default fields of
\* a held record contain; nothing is returned.
C24_Witness ==
  /\ ret.op = "search"
  /\ ret.query = <<"B">>
  /\ ret.fields = Fields(<<>>)
  /\ DefaultMatches(ret.query) # {}
  /\ ret.value = <<>>

====
